---- MODULE Spec2Model ----
(***************************************************************************)
(* Model of cylsim (src/cylsim/cylinder.py, src/cylsim/hputil.py):         *)
(* half-plane folding of baselines, reduction of feed pairs to unique      *)
(* baselines, bandlimit selection and the transfer_matrices loop of        *)
(* TransitTelescope with its unpolarised and polarised variants.           *)
(*                                                                         *)
(* Lengths are integers counted in units of 1/One metre.  A float64 is     *)
(* modelled as an integer rounded to MantBits significant bits (round to   *)
(* nearest, ties to even), which is what IEEE arithmetic does to a value   *)
(* that is a whole number of units.  Sequences are 1-based; numpy indices  *)
(* are 0-based and are converted where an array is indexed.                *)
(***************************************************************************)
EXTENDS Integers, Sequences, FiniteSets, TLC

\* ------------------------------------------------------------------ bounds
\* Coordinates of the vectors given to map_half_plane lie in -MaxCoord..MaxCoord.
MaxCoord == 4
\* Feed positions of a free geometry lie on 0..MaxX by 0..MaxY.
MaxX == 1
MaxY == 2
\* A free geometry has 1..MaxFeed feeds.
MaxFeed == 3
\* Significant bits of the modelled floating-point format.
MantBits == 4
\* A cylinder array has at most MaxNumFeeds feeds in all.
MaxNumFeeds == 6
\* feed_spacing is 1..MaxSpacing units, cylinder_width 1..MaxWidth units.
MaxSpacing == 15
MaxWidth == 3

\* ------------------------------------------------------------- constants
\* The literal 1 of map_half_plane, in units: one unit is half a metre.
One == 2
\* An attribute that may be unset holds None or Some(value).
None == <<>>
Some(x) == <<x>>

\* ------------------------------------------------------ general helpers
RECURSIVE SumSeq(_)
SumSeq(s) == IF s = <<>> THEN 0 ELSE Head(s) + SumSeq(Tail(s))

Abs(n) == IF n < 0 THEN -n ELSE n

RECURSIVE Pow2(_)
Pow2(k) == IF k <= 0 THEN 1 ELSE 2 * Pow2(k - 1)

RECURSIVE BitLen(_)
BitLen(n) == IF n = 0 THEN 0 ELSE 1 + BitLen(n \div 2)

\* Rounding of a non-negative value to MantBits significant bits.
FlPos(n) ==
    IF n < Pow2(MantBits) THEN n
    ELSE LET u == Pow2(BitLen(n) - MantBits)
             q == n \div u
             r == n % u
         IN  IF 2 * r < u THEN q * u
             ELSE IF 2 * r > u THEN (q + 1) * u
             ELSE IF q % 2 = 0 THEN q * u ELSE (q + 1) * u

\* The float64 result of an arithmetic operation whose exact value is n.
Fl(n) == IF n < 0 THEN -FlPos(-n) ELSE FlPos(n)

\* An array built element by element, stored as a tuple of its elements.
Array(f) == f \o <<>>

Neg(v) == <<-v[1], -v[2]>>

\* Row-wise difference of two position vectors (float subtraction).
VecSub(a, b) == <<Fl(a[1] - b[1]), Fl(a[2] - b[2])>>

\* ------------------------------------------------------- map_half_plane
\* First np.where: rows with a negative first coordinate are negated.
FoldNegative(v) == IF v[1] < 0 THEN Neg(v) ELSE v

\* Second np.where: rows with first coordinate 0 and second below 1 are negated.
FoldAxis(v) == IF v[1] = 0 /\ v[2] < One THEN Neg(v) ELSE v

map_half_plane_identity(arr) == arr

map_half_plane(arr) == Array([k \in 1..Len(arr) |-> FoldAxis(FoldNegative(arr[k]))])

\* ------------------------------------------------------------- the state
VARIABLES
    foldArr,        \* the array handed to map_half_plane
    foldHist,       \* the arrays map_half_plane returned, oldest first
    num_cylinders,  \* CylinderTelescope.num_cylinders (0: not a cylinder array)
    num_feeds,      \* CylinderTelescope.num_feeds
    cylinder_width, \* CylinderTelescope.cylinder_width
    feed_spacing,   \* CylinderTelescope.feed_spacing
    feedpositions,  \* the feedpositions property: rows <<u, v>>
    _baselines,     \* TransitTelescope._baselines
    _redundancy,    \* TransitTelescope._redundancy
    _feedpairs,     \* TransitTelescope._feedpairs: rows <<i, j>>, 0-based
    wavelengths,    \* the wavelengths property, one per frequency band
    polarised,      \* TRUE: PolarisedTelescope, FALSE: UnpolarisedTelescope
    _nside,         \* TransitTelescope._nside: resolution of the cached grid
    _angpos,        \* TransitTelescope._angpos: resolution the positions have
    _horizon,       \* TransitTelescope._horizon: resolution the mask has
    _bc_freq,       \* UnpolarisedCylinderTelescope._bc_freq
    _bc_nside,      \* UnpolarisedCylinderTelescope._bc_nside
    _bc_map,        \* UnpolarisedCylinderTelescope._bc_map
    alm,            \* hputil: a triangular coefficient array, rows <<re, im>>
    alm_lmax,       \* hputil: its bandlimit
    fullm,          \* hputil: the fullm argument of unpack_alm
    almarray,       \* hputil: what unpack_alm returned
    pack_lmax,      \* hputil: the lmax argument of pack_alm
    alm_packed,     \* hputil: what pack_alm returned
    lm_baseline,    \* max_lm: the baseline <<u, v>>
    lm_wavelength,  \* max_lm: the wavelength
    lm_width,       \* max_lm: the width
    lm_ret,         \* max_lm: what it returned
    pc,             \* where transfer_matrices is: idle, loop, returned, raised
    bl_indices,     \* transfer_matrices: bl_indices after broadcasting
    f_indices,      \* transfer_matrices: f_indices after broadcasting
    global_lmax,    \* transfer_matrices: the global_lmax argument
    lmax,           \* transfer_matrices: the doubled per-pair bandlimits
    lside,          \* transfer_matrices: the output side length
    tarray,         \* transfer_matrices: the output buffer
    order,          \* transfer_matrices: np.argsort(lmax.flat)
    klog,           \* the _transfer_single invocations of this call, in order
    nside0          \* _nside on entry to this call

vars == <<foldArr, foldHist, num_cylinders, num_feeds, cylinder_width,
          feed_spacing, feedpositions, _baselines, _redundancy, _feedpairs,
          wavelengths, polarised, _nside, pc, bl_indices, f_indices,
          global_lmax, lmax, lside, tarray, order, klog, nside0,
          _angpos, _horizon, _bc_freq, _bc_nside, _bc_map,
          alm, alm_lmax, fullm, almarray, pack_lmax, alm_packed,
          lm_baseline, lm_wavelength, lm_width, lm_ret>>

foldVars == <<foldArr, foldHist>>
geomVars == <<num_cylinders, num_feeds, cylinder_width, feed_spacing,
              feedpositions, wavelengths, polarised>>
baseVars == <<_baselines, _redundancy, _feedpairs>>
cacheVars == <<_nside, _angpos, _horizon, _bc_freq, _bc_nside, _bc_map>>
almVars == <<alm, alm_lmax, fullm, almarray, pack_lmax, alm_packed>>
lmVars == <<lm_baseline, lm_wavelength, lm_width, lm_ret>>
funVars == <<almVars, lmVars>>
callVars == <<pc, bl_indices, f_indices, global_lmax, lmax, lside, tarray,
              order, klog, nside0>>

\* ------------------------------------------------------ numpy primitives
\* The elements of a finite set of integers in ascending order.
SortedInts(S) ==
    Array([k \in 1..Cardinality(S) |->
        CHOOSE x \in S : Cardinality({y \in S : y < x}) = k - 1])

\* Order of complex numbers in np.unique: by real part, then imaginary part.
LexLess(a, b) == a[1] < b[1] \/ (a[1] = b[1] /\ a[2] < b[2])

SortedVecs(S) ==
    Array([k \in 1..Cardinality(S) |->
        CHOOSE x \in S : Cardinality({y \in S : LexLess(y, x)}) = k - 1])

\* np.triu_indices(n, k) applied to np.indices((n, n)): the pairs <<i, j>> with
\* j - i >= k, row by row.
TriuPairs(n, k) ==
    LET keep  == {p \in (0..(n - 1)) \X (0..(n - 1)) : p[2] - p[1] >= k}
        codes == SortedInts({p[1] * n + p[2] : p \in keep})
    IN  Array([m \in 1..Len(codes) |-> <<codes[m] \div n, codes[m] % n>>])

\* np.unique(vals, return_index=True, return_inverse=True); indices 0-based.
np_unique(vals) ==
    LET ub == SortedVecs({vals[m] : m \in 1..Len(vals)})
    IN  [ub  |-> ub,
         ind |-> Array([k \in 1..Len(ub) |->
                    (CHOOSE m \in 1..Len(vals) :
                        /\ vals[m] = ub[k]
                        /\ \A o \in 1..(m - 1) : vals[o] # ub[k]) - 1]),
         inv |-> Array([m \in 1..Len(vals) |->
                    (CHOOSE k \in 1..Len(ub) : ub[k] = vals[m]) - 1])]

\* np.bincount(inv): how often each value 0..max(inv) occurs.
bincount(inv) ==
    IF inv = <<>> THEN <<>>
    ELSE LET top == CHOOSE x \in {inv[m] : m \in 1..Len(inv)} :
                        \A y \in {inv[m] : m \in 1..Len(inv)} : y <= x
         IN  Array([k \in 1..(top + 1) |->
                 Cardinality({m \in 1..Len(inv) : inv[m] = k - 1})])

\* ------------------------------------------------- CylinderTelescope
\* feed_positions_cylinder(cylinder_index); callers pass a valid index.
feed_positions_cylinder(nf, w, s, cylinder_index) ==
    Array([k \in 1..nf |-> <<Fl(cylinder_index * w), Fl((k - 1) * s)>>])

RECURSIVE VStack(_, _, _, _)
VStack(nc, nf, w, s) ==
    IF nc = 0 THEN <<>>
    ELSE VStack(nc - 1, nf, w, s) \o feed_positions_cylinder(nf, w, s, nc - 1)

\* The feedpositions property of CylinderTelescope.
CylFeedpositions(nc, nf, w, s) == VStack(nc, nf, w, s)

\* _get_unique(feedpairs): feedpairs as rows <<i, j>>.
_get_unique(feedpairs) ==
    LET bl1 == map_half_plane(Array([m \in 1..Len(feedpairs) |->
                   VecSub(feedpositions[feedpairs[m][1] + 1],
                          feedpositions[feedpairs[m][2] + 1])]))
        u == np_unique(bl1)
    IN  [upairs     |-> Array([k \in 1..Len(u.ind) |-> feedpairs[u.ind[k] + 1]]),
         redundancy |-> bincount(u.inv)]

\* ------------------------------------------------- TransitTelescope
nfeed == Len(feedpositions)

fpairs_with_diagonal(n) == TriuPairs(n, 0)

\* The list of all feed pairs formed by calculate_baselines.
fpairs(n) == TriuPairs(n, 1)

\* The stored arrays, once calculate_baselines has set them.
baselines == _baselines[1]
redundancy == _redundancy[1]
feedpairs == _feedpairs[1]

\* calculate_baselines storing the folded separations.
calculated_folded ==
    LET u == _get_unique(fpairs(nfeed))
    IN  [redundancy |-> u.redundancy,
         baselines  |-> map_half_plane(Array([k \in 1..Len(u.upairs) |->
                             VecSub(feedpositions[u.upairs[k][1] + 1],
                                    feedpositions[u.upairs[k][2] + 1])])),
         feedpairs  |-> u.upairs]

\* What calculate_baselines computes from the feed positions.
calculated ==
    LET u == _get_unique(fpairs(nfeed))
    IN  [redundancy |-> u.redundancy,
         baselines  |-> Array([k \in 1..Len(u.upairs) |->
                             VecSub(feedpositions[u.upairs[k][1] + 1],
                                    feedpositions[u.upairs[k][2] + 1])]),
         feedpairs  |-> u.upairs]

calculate_baselines ==
    /\ _redundancy' = Some(calculated.redundancy)
    /\ _baselines' = Some(calculated.baselines)
    /\ _feedpairs' = Some(calculated.feedpairs)
    /\ UNCHANGED <<foldVars, geomVars, cacheVars, callVars, funVars>>

\* The resolution __init__ builds the first grid with: self._init_trans(2).
InitNside == 2

\* The state of a telescope on which transfer_matrices was never called.
NoCall ==
    /\ _nside = InitNside /\ _angpos = InitNside /\ _horizon = InitNside
    /\ _bc_freq = None /\ _bc_nside = None /\ _bc_map = None
    /\ pc = "idle"
    /\ bl_indices = <<>> /\ f_indices = <<>> /\ global_lmax = TRUE
    /\ lmax = <<>> /\ lside = 0 /\ tarray = None
    /\ order = <<>> /\ klog = <<>> /\ nside0 = InitNside

\* No function of hputil and no max_lm is under call.
NoFunction ==
    /\ alm = <<>> /\ alm_lmax = 0 /\ fullm = FALSE
    /\ almarray = None /\ pack_lmax = None /\ alm_packed = None
    /\ lm_baseline = <<0, 0>> /\ lm_wavelength = 1 /\ lm_width = 0
    /\ lm_ret = None

\* ------------------------------------------------------------- max_lm
\* np.pi as the fraction PiNum / PiDen.
PiNum == 355
PiDen == 113

\* np.ceil(a / b) for a >= 0, b > 0.
CeilDiv(a, b) == (a + b - 1) \div b

\* mmax with half the width added: ceil(2 pi (|u| + width / 2) / wavelength).
max_m_half_width(bl, wavelength, width) ==
    CeilDiv(PiNum * (2 * Abs(bl[1]) + width), PiDen * wavelength)

\* mmax of max_lm for one baseline and wavelength:
\* ceil(2 pi (|u| + width) / wavelength).
max_m(bl, wavelength, width) ==
    CeilDiv(2 * PiNum * (Abs(bl[1]) + width), PiDen * wavelength)

\* lmax of max_lm: ceil(sqrt(mmax^2 + (2 pi |v| / wavelength)^2)), the least l
\* whose square reaches the sum.
max_l(bl, wavelength, width) ==
    LET m == max_m(bl, wavelength, width)
        d == PiDen * wavelength
        n == 2 * PiNum * Abs(bl[2])
    IN  CHOOSE l \in m..(m + CeilDiv(n, d)) :
            /\ l * l * d * d >= m * m * d * d + n * n
            /\ l = 0 \/ (l - 1) * (l - 1) * d * d < m * m * d * d + n * n

\* max_lm(baselines, wavelengths, width) on arrays of equal length.
max_lm(bls, wls, width) ==
    [lmax |-> Array([k \in 1..Len(bls) |-> max_l(bls[k], wls[k], width)]),
     mmax |-> Array([k \in 1..Len(bls) |-> max_m(bls[k], wls[k], width)])]

\* ndarray.max() of a non-empty array.
ArrayMax(a) == CHOOSE x \in {a[k] : k \in 1..Len(a)} :
                   \A y \in {a[k] : k \in 1..Len(a)} : y <= x

\* A call of max_lm on one baseline and one wavelength.
max_lm_call ==
    /\ lm_ret = None
    /\ lm_ret' = Some(max_lm(<<lm_baseline>>, <<lm_wavelength>>, lm_width))
    /\ UNCHANGED <<foldVars, geomVars, baseVars, cacheVars, callVars, almVars,
                   lm_baseline, lm_wavelength, lm_width>>

\* The u_width property of CylinderTelescope.
u_width == cylinder_width

\* The lmax property: max_lm over all baselines bs at wavelengths[-1].
self_lmax(bs) ==
    ArrayMax(max_lm(bs, [k \in 1..Len(bs) |-> wavelengths[Len(wavelengths)]],
                    u_width).lmax)

\* ------------------------------------------------------------- hputil
RECURSIVE NsideFrom(_, _)
NsideFrom(n, l) == IF 3 * n >= 2 * (l + 1) THEN n ELSE NsideFrom(2 * n, l)

\* nside_for_lmax(lmax): 2 * 2^ceil(log2((lmax + 1) / 3)).
nside_for_lmax(l) == NsideFrom(1, l)

\* The side of the block sphtrans_real embeds the transform in.
block_side(l, ls) == IF ls < l THEN l ELSE ls

\* A coefficient is a complex number <<re, im>>; a 2-d array is the tuple of
\* its rows.
Zero == <<0, 0>>

Conj(z) == <<z[1], 0 - z[2]>>

\* (-1)**m times z.
SignTimes(m, z) == IF m % 2 = 0 THEN z ELSE <<0 - z[1], 0 - z[2]>>

Rows(a) == Len(a)
Cols(a) == Len(a[1])

np_zeros(r, c) == Array([i \in 1..r |-> Array([j \in 1..c |-> Zero])])

\* a.T
Transpose(a) ==
    Array([j \in 1..Cols(a) |-> Array([i \in 1..Rows(a) |-> a[i][j]])])

\* np.triu_indices(n): the index pairs <<i, j>>, i <= j < n, row by row.
triu_indices(n) == TriuPairs(n, 0)

\* a[idx] = vals for a list idx of index pairs: a with those entries replaced.
SetAt(a, idx, vals) ==
    Array([i \in 1..Rows(a) |-> Array([j \in 1..Cols(a) |->
        IF \E k \in 1..Len(idx) : idx[k] = <<i - 1, j - 1>>
        THEN vals[CHOOSE k \in 1..Len(idx) : idx[k] = <<i - 1, j - 1>>]
        ELSE a[i][j]])])

\* a[idx]: the entries at the index pairs, in their order.
GetAt(a, idx) ==
    Array([k \in 1..Len(idx) |-> a[idx[k][1] + 1][idx[k][2] + 1]])

\* Every index pair of idx lies inside a.
InsideAt(a, idx) ==
    \A k \in 1..Len(idx) : idx[k][1] < Rows(a) /\ idx[k][2] < Cols(a)

\* _make_full_alm with centered=True: negative orders first, m = 0 in the
\* central column.
_make_full_alm_centered(alm_half) ==
    LET mmax == Cols(alm_half)
    IN  Array([l \in 1..Rows(alm_half) |-> Array([c \in 1..(2 * mmax - 1) |->
            IF c >= mmax THEN alm_half[l][c - mmax + 1]
            ELSE SignTimes(mmax - c, Conj(alm_half[l][mmax - c + 1]))])])

\* _make_full_alm(alm_half) with centered=False: columns 0..mmax-1 are
\* alm_half, column mmax+k is (-1)**m conj(alm_half[:, m]) for m = mmax-1-k.
_make_full_alm(alm_half) ==
    LET mmax == Cols(alm_half)
    IN  Array([l \in 1..Rows(alm_half) |-> Array([c \in 1..(2 * mmax - 1) |->
            IF c <= mmax THEN alm_half[l][c]
            ELSE SignTimes(2 * mmax - c, Conj(alm_half[l][2 * mmax - c + 1]))])])

\* _make_half_alm(alm_full): column 0 is copied; the loop over mi >= 1
\* evaluates (-1)**0.5, which raises, so only a one-row array comes back.
_make_half_alm(alm_full) ==
    IF Rows(alm_full) = 1
    THEN [ok |-> TRUE, alm |-> <<<<alm_full[1][1]>>>>]
    ELSE [ok |-> FALSE, alm |-> <<>>]

\* unpack_alm that fills almarray itself and not its transpose.
unpack_alm_untransposed(a, l, fm) ==
    LET almarr == SetAt(np_zeros(l + 1, l + 1), triu_indices(l + 1), a)
    IN  IF fm THEN _make_full_alm(almarr) ELSE almarr

\* unpack_alm(alm, lmax, fullm): (almarray.T)[np.triu_indices(lmax+1)] = alm
\* writes through the transposed view.
unpack_alm(a, l, fm) ==
    LET almarr == Transpose(SetAt(Transpose(np_zeros(l + 1, l + 1)),
                                  triu_indices(l + 1), a))
    IN  IF fm THEN _make_full_alm(almarr) ELSE almarr

\* pack_alm(almarray, lmax); lm is None or Some(lmax). ok = FALSE: an
\* exception (from _make_half_alm or from indexing outside the array).
pack_alm(almarr, lm) ==
    LET half == IF 2 * Cols(almarr) - 1 = Rows(almarr)
                THEN _make_half_alm(almarr)
                ELSE [ok |-> TRUE, alm |-> almarr]
    IN  IF ~half.ok THEN [ok |-> FALSE, alm |-> <<>>]
        ELSE LET l   == IF lm = None \/ lm = Some(0)
                        THEN Rows(half.alm) - 1 ELSE lm[1]
                 t   == Transpose(half.alm)
                 idx == triu_indices(l + 1)
             IN  IF InsideAt(t, idx)
                 THEN [ok |-> TRUE, alm |-> GetAt(t, idx)]
                 ELSE [ok |-> FALSE, alm |-> <<>>]

\* A call of unpack_alm on the array alm.
unpack_alm_call ==
    /\ alm # <<>>
    /\ almarray = None
    /\ \E fm \in BOOLEAN :
          /\ fullm' = fm
          /\ almarray' = Some(unpack_alm(alm, alm_lmax, fm))
    /\ UNCHANGED <<foldVars, geomVars, baseVars, cacheVars, callVars, lmVars,
                   alm, alm_lmax, pack_lmax, alm_packed>>

\* A call of pack_alm on what unpack_alm returned, lmax given or left out.
pack_alm_call ==
    /\ almarray # None
    /\ alm_packed = None
    /\ \E lm \in {None, Some(alm_lmax)} :
          /\ pack_lmax' = lm
          /\ alm_packed' = Some(pack_alm(almarray[1], lm))
    /\ UNCHANGED <<foldVars, geomVars, baseVars, cacheVars, callVars, lmVars,
                   alm, alm_lmax, fullm, almarray>>

\* ------------------------------------------------ transfer_matrices
\* numpy indexing of a 1-d array by one valid index (negative: from the end).
NpIndex(arr, i) == IF i < 0 THEN arr[Len(arr) + i + 1] ELSE arr[i + 1]

\* numpy raises IndexError unless every index lies in [-len, len).
Indexable(arr, idx) ==
    \A k \in 1..Len(idx) : idx[k] >= 0 - Len(arr) /\ idx[k] < Len(arr)

in_range_no_min(arr, min, max) == \A k \in 1..Len(arr) : arr[k] < max

in_range(arr, min, max) ==
    /\ \A k \in 1..Len(arr) : arr[k] >= min
    /\ \A k \in 1..Len(arr) : arr[k] < max

out_of_range(arr, min, max) == ~in_range(arr, min, max)

\* np.broadcast_arrays on two 1-d arrays.
Broadcastable(a, b) == Len(a) = Len(b) \/ Len(a) = 1 \/ Len(b) = 1

Stretch(a, n) == IF Len(a) = n THEN a ELSE [k \in 1..n |-> a[1]]

Broadcast(a, b) ==
    LET n == IF Len(a) > Len(b) THEN Len(a) ELSE Len(b)
    IN  [bl |-> Array(Stretch(a, n)), f |-> Array(Stretch(b, n))]

\* The orders np.argsort may return: every permutation of the flat indices
\* 0..n-1 along which the values do not decrease.
IndexOrders(n) ==
    {p \in [1..n -> 0..(n - 1)] : \A i, j \in 1..n : i # j => p[i] # p[j]}

argsort_unsorted(a) == {[k \in 1..Len(a) |-> k - 1]}

argsort(a) ==
    {p \in IndexOrders(Len(a)) :
        \A k \in 1..(Len(a) - 1) : a[p[k] + 1] <= a[p[k + 1] + 1]}

\* One (degree, order) coefficient block. written = FALSE is the block of
\* zeros np.zeros allocates; a written block records what it was computed
\* from and the side it was computed with.
\* ns, hz: the resolutions of the positions and of the horizon mask the
\* block was computed on; bm: the beam map it was computed with.
Zeros(side) ==
    [written |-> FALSE, bl |-> 0, f |-> 0, lmax |-> 0, nside |-> 0,
     horizon |-> 0, beam |-> <<>>, side |-> side, prod |-> "", comp |-> ""]

Block(bl, f, l, ls, ns, hz, bm, prod, comp) ==
    [written |-> TRUE, bl |-> bl, f |-> f, lmax |-> l, nside |-> ns,
     horizon |-> hz, beam |-> bm,
     side |-> block_side(l, ls), prod |-> prod, comp |-> comp]

\* visibility.cylinder_beam on the positions of resolution angpos, for the
\* width in wavelengths of band freq: the map, named by what it is made from.
cylinder_beam(angpos, freq) == <<angpos, freq>>

beam_cache_stale_freq_only(bc_freq, bc_nside, freq, nside) ==
    bc_freq # Some(freq)

\* The test of UnpolarisedCylinderTelescope.beam.
beam_cache_stale(bc_freq, bc_nside, freq, nside) ==
    bc_freq # Some(freq) \/ bc_nside # Some(nside)

Products == <<"xx", "xy", "yy">>
Components == <<"T", "E", "B">>

\* UnpolarisedTelescope._transfer_single, on the grid of resolution ns.
Unpol_transfer_single(bl, f, l, ls, ns, hz, bm) ==
    Block(bl, f, l, ls, ns, hz, bm, "", "")

\* PolarisedTelescope._transfer_single: [btransxx, btransxy, btransyy], each
\* the three coefficient arrays sphtrans_complex_pol returns.
Pol_transfer_single(bl, f, l, ls, ns, hz, bm) ==
    [pi \in 1..3 |-> [pj \in 1..3 |->
        Block(bl, f, l, ls, ns, hz, bm, Products[pi], Components[pj])]]

Unpol_make_matrix_array(n, ls) == [k \in 1..n |-> Zeros(ls)]

Pol_make_matrix_array(n, ls) ==
    [k \in 1..n |-> [pi \in 1..3 |-> [pj \in 1..3 |-> Zeros(ls)]]]

\* A copy that writes every result into the first coordinate.
Unpol_copy_into_first(tarr, tsingle, ind) ==
    IF tsingle.side # tarr[1].side
    THEN [ok |-> FALSE, tarray |-> tarr]
    ELSE [ok |-> TRUE, tarray |-> [tarr EXCEPT ![1] = tsingle]]

\* UnpolarisedTelescope._copy_single_into_array; ok = FALSE: numpy refuses to
\* assign a block of another shape.
Unpol_copy_single_into_array(tarr, tsingle, ind) ==
    IF tsingle.side # tarr[ind + 1].side
    THEN [ok |-> FALSE, tarray |-> tarr]
    ELSE [ok |-> TRUE, tarray |-> [tarr EXCEPT ![ind + 1] = tsingle]]

Pol_copy_three_slots(tarr, tsingle, ind) ==
    IF tsingle[1][1].side # tarr[ind + 1][1][1].side
    THEN [ok |-> FALSE, tarray |-> tarr]
    ELSE [ok |-> TRUE,
          tarray |-> [tarr EXCEPT ![ind + 1] =
              [pi \in 1..3 |-> [pj \in 1..3 |->
                  IF pj = 1 THEN tsingle[pi][1] ELSE tarr[ind + 1][pi][pj]]]]]

\* PolarisedTelescope._copy_single_into_array: the loops over pi and pj.
Pol_copy_single_into_array(tarr, tsingle, ind) ==
    IF tsingle[1][1].side # tarr[ind + 1][1][1].side
    THEN [ok |-> FALSE, tarray |-> tarr]
    ELSE [ok |-> TRUE,
          tarray |-> [tarr EXCEPT ![ind + 1] =
              [pi \in 1..3 |-> [pj \in 1..3 |-> tsingle[pi][pj]]]]]

always_init(cached, needed) == TRUE

\* The test of _transfer_single: self._nside != hputil.nside_for_lmax(lmax).
needs_init(cached, needed) == cached # needed

\* What the baselines, redundancy and feedpairs properties hold once one of
\* them has been read: the stored arrays, calculated first when unset.
properties_read ==
    IF _baselines = None THEN calculated
    ELSE [redundancy |-> redundancy, baselines |-> baselines,
          feedpairs |-> feedpairs]

nfreq == Len(wavelengths)

\* transfer_matrices from its entry to the start of the loop: broadcasting,
\* the two range checks, the bandlimits, lside, the buffer and the order.
\* props is properties_read in the state of the call.
transfer_matrices(props, bl_in, f_in, g) ==
    /\ Broadcastable(bl_in, f_in)
    /\ LET b  == Broadcast(bl_in, f_in)
           bs == props.baselines
       IN  /\ bl_indices' = b.bl
           /\ f_indices' = b.f
           /\ global_lmax' = g
           /\ nside0' = _nside
           /\ klog' = <<>>
           /\ _redundancy' = Some(props.redundancy)
           /\ _baselines' = Some(props.baselines)
           /\ _feedpairs' = Some(props.feedpairs)
           /\ IF \/ out_of_range(b.bl, 0, Len(bs))
                 \/ out_of_range(b.f, 0, nfreq)
                 \/ ~Indexable(bs, b.bl)
                 \/ ~Indexable(wavelengths, b.f)
              THEN /\ pc' = "raised"
                   /\ lmax' = <<>> /\ lside' = 0 /\ tarray' = None /\ order' = <<>>
              ELSE LET lm == max_lm([k \in 1..Len(b.bl) |-> NpIndex(bs, b.bl[k])],
                                    [k \in 1..Len(b.f) |-> NpIndex(wavelengths, b.f[k])],
                                    u_width).lmax
                       doubled == Array([k \in 1..Len(lm) |-> lm[k] * 2])
                       ls == IF g THEN self_lmax(bs) ELSE ArrayMax(doubled)
                   IN  /\ pc' = "loop"
                       /\ lmax' = doubled
                       /\ lside' = ls
                       /\ tarray' = Some(IF polarised
                                         THEN Pol_make_matrix_array(Len(lm), ls)
                                         ELSE Unpol_make_matrix_array(Len(lm), ls))
                       /\ order' \in argsort(doubled)
    /\ UNCHANGED <<foldVars, geomVars, cacheVars, funVars>>

\* One pass of the loop: _transfer_single for the next pair of the order,
\* then _copy_single_into_array.
transfer_single_step ==
    /\ pc = "loop"
    /\ Len(klog) < Len(order)
    /\ LET ind    == order[Len(klog) + 1]
           l      == lmax[ind + 1]
           bl     == bl_indices[ind + 1]
           f      == f_indices[ind + 1]
           needed == nside_for_lmax(l)
           init   == needs_init(_nside, needed)
           ns     == IF init THEN needed ELSE _nside
           ap     == IF init THEN needed ELSE _angpos
           hz     == IF init THEN needed ELSE _horizon
           stale  == ~polarised /\ beam_cache_stale(_bc_freq, _bc_nside, f, ns)
           bm     == IF polarised \/ stale THEN cylinder_beam(ap, f)
                     ELSE _bc_map[1]
           cp     == IF polarised
                     THEN Pol_copy_single_into_array(tarray[1],
                              Pol_transfer_single(bl, f, l, lside, ap, hz, bm),
                              ind)
                     ELSE Unpol_copy_single_into_array(tarray[1],
                              Unpol_transfer_single(bl, f, l, lside, ap, hz, bm),
                              ind)
       IN  /\ _nside' = ns /\ _angpos' = ap /\ _horizon' = hz
           /\ _bc_freq' = IF stale THEN Some(f) ELSE _bc_freq
           /\ _bc_nside' = IF stale THEN Some(ns) ELSE _bc_nside
           /\ _bc_map' = IF stale THEN Some(bm) ELSE _bc_map
           /\ klog' = Append(klog, [ind |-> ind, lmax |-> l, cached |-> _nside,
                                    nside |-> needed, init |-> init])
           /\ tarray' = Some(cp.tarray)
           /\ pc' = IF cp.ok THEN "loop" ELSE "raised"
    /\ UNCHANGED <<foldVars, geomVars, baseVars, bl_indices, f_indices,
                   global_lmax, lmax, lside, order, nside0, funVars>>

\* The end of the loop: return tarray.
transfer_matrices_return ==
    /\ pc = "loop"
    /\ Len(klog) = Len(order)
    /\ pc' = "returned"
    /\ UNCHANGED <<foldVars, geomVars, baseVars, cacheVars, bl_indices,
                   f_indices, global_lmax, lmax, lside, tarray, order, klog,
                   nside0, funVars>>

\* The caller is done with the result or the exception: the locals of the
\* call are gone, the attributes of the telescope stay.
call_over ==
    /\ pc \in {"returned", "raised"}
    /\ pc' = "idle"
    /\ bl_indices' = <<>> /\ f_indices' = <<>> /\ global_lmax' = TRUE
    /\ lmax' = <<>> /\ lside' = 0 /\ tarray' = None
    /\ order' = <<>> /\ klog' = <<>> /\ nside0' = _nside
    /\ UNCHANGED <<foldVars, geomVars, baseVars, cacheVars, funVars>>

\* ------------------------------------------- map_half_plane on its own
MaxFolds == 2

Coords == (-MaxCoord)..MaxCoord

FoldInit ==
    /\ foldArr \in {<<v, Neg(v)>> : v \in Coords \X Coords}
    /\ foldHist = <<>>
    /\ num_cylinders = 0 /\ num_feeds = 0
    /\ cylinder_width = 0 /\ feed_spacing = 0
    /\ feedpositions = <<>>
    /\ wavelengths = <<>> /\ polarised = FALSE
    /\ _baselines = None /\ _redundancy = None /\ _feedpairs = None
    /\ NoCall
    /\ NoFunction

\* One application of map_half_plane, to the input or to the previous result.
FoldStep ==
    /\ Len(foldHist) < MaxFolds
    /\ foldHist' = Append(foldHist,
           map_half_plane(IF foldHist = <<>> THEN foldArr
                          ELSE foldHist[Len(foldHist)]))
    /\ UNCHANGED <<foldArr, geomVars, baseVars, cacheVars, callVars, funVars>>

FoldNext == FoldStep

SpecFold == FoldInit /\ [][FoldNext]_vars

\* ------------------------------------------- baselines of a free geometry
Positions == (0..MaxX) \X (0..MaxY)

Geometries == UNION {[1..n -> Positions] : n \in 1..MaxFeed}

BaseInit ==
    /\ foldArr = <<>> /\ foldHist = <<>>
    /\ num_cylinders = 0 /\ num_feeds = 0
    /\ cylinder_width = 0 /\ feed_spacing = 0
    /\ feedpositions \in Geometries
    /\ wavelengths = <<>> /\ polarised = FALSE
    /\ _baselines = None /\ _redundancy = None /\ _feedpairs = None
    /\ NoCall
    /\ NoFunction

BaseNext == calculate_baselines

SpecBase == BaseInit /\ [][BaseNext]_vars

\* ------------------------------------------- baselines of cylinder arrays
MaxCylinders == 2

CylInit ==
    /\ foldArr = <<>> /\ foldHist = <<>>
    /\ num_cylinders \in 1..MaxCylinders
    /\ num_feeds \in 1..MaxNumFeeds
    /\ num_cylinders * num_feeds <= MaxNumFeeds
    /\ cylinder_width \in 1..MaxWidth
    /\ feed_spacing \in 1..MaxSpacing
    /\ feedpositions = CylFeedpositions(num_cylinders, num_feeds,
                                        cylinder_width, feed_spacing)
    /\ wavelengths = <<>> /\ polarised = FALSE
    /\ _baselines = None /\ _redundancy = None /\ _feedpairs = None
    /\ NoCall
    /\ NoFunction

CylNext == calculate_baselines

SpecCyl == CylInit /\ [][CylNext]_vars

\* ------------------------------------------- transfer matrices
\* A telescope has at most MaxTMFeeds feeds in all; cylinder_width and
\* feed_spacing are 1..MaxTMWidth units.
MaxTMFeeds == 3
MaxTMWidth == 1
\* There are 1..MaxFreq frequency bands, of wavelengths 1..MaxWavelength units.
MaxFreq == 2
MaxWavelength == 2
\* A request names 1..MaxReq baseline and frequency indices.
MaxReq == 2

\* Wavelengths of ascending frequencies: they do not increase.
WavelengthArrays ==
    UNION {{w \in [1..n -> 1..MaxWavelength] :
               \A k \in 1..(n - 1) : w[k] >= w[k + 1]} : n \in 1..MaxFreq}

TMInit ==
    /\ foldArr = <<>> /\ foldHist = <<>>
    /\ num_cylinders \in 1..MaxCylinders
    /\ num_feeds \in 1..MaxTMFeeds
    /\ num_cylinders * num_feeds <= MaxTMFeeds
    /\ cylinder_width \in 1..MaxTMWidth
    /\ feed_spacing \in 1..MaxTMWidth
    /\ feedpositions = CylFeedpositions(num_cylinders, num_feeds,
                                        cylinder_width, feed_spacing)
    /\ wavelengths \in WavelengthArrays
    /\ polarised \in BOOLEAN
    /\ _baselines = None /\ _redundancy = None /\ _feedpairs = None
    /\ NoCall
    /\ NoFunction

\* Index arrays of a request: 1..MaxReq indices, from -1 to one past the end.
IndexArrays(n) == UNION {[1..k -> (-1)..n] : k \in 1..MaxReq}

TMNext ==
    \/ /\ pc = "idle"
       /\ LET props == properties_read
          IN  \E bl_in \in IndexArrays(Len(props.baselines)),
                 f_in \in IndexArrays(nfreq), g \in BOOLEAN :
                   transfer_matrices(props, bl_in, f_in, g)
    \/ transfer_single_step
    \/ transfer_matrices_return
    \/ call_over

SpecTM == TMInit /\ [][TMNext]_vars

\* ------------------------------------------- packing of coefficients
MaxLmax == 2

AlmValues == {<<1, 2>>, <<0, -1>>}

AlmInit ==
    /\ foldArr = <<>> /\ foldHist = <<>>
    /\ num_cylinders = 0 /\ num_feeds = 0
    /\ cylinder_width = 0 /\ feed_spacing = 0
    /\ feedpositions = <<>>
    /\ wavelengths = <<>> /\ polarised = FALSE
    /\ _baselines = None /\ _redundancy = None /\ _feedpairs = None
    /\ NoCall
    /\ alm_lmax \in 0..MaxLmax
    /\ alm \in [1..(((alm_lmax + 1) * (alm_lmax + 2)) \div 2) -> AlmValues]
    /\ fullm = FALSE
    /\ almarray = None /\ pack_lmax = None /\ alm_packed = None
    /\ lm_baseline = <<0, 0>> /\ lm_wavelength = 1 /\ lm_width = 0
    /\ lm_ret = None

AlmNext == unpack_alm_call \/ pack_alm_call

SpecAlm == AlmInit /\ [][AlmNext]_vars

\* ------------------------------------------- bandlimits
MaxLmCoord == 3
MaxLmWavelength == 3
MaxLmWidth == 2

LmInit ==
    /\ foldArr = <<>> /\ foldHist = <<>>
    /\ num_cylinders = 0 /\ num_feeds = 0
    /\ cylinder_width = 0 /\ feed_spacing = 0
    /\ feedpositions = <<>>
    /\ wavelengths = <<>> /\ polarised = FALSE
    /\ _baselines = None /\ _redundancy = None /\ _feedpairs = None
    /\ NoCall
    /\ alm = <<>> /\ alm_lmax = 0 /\ fullm = FALSE
    /\ almarray = None /\ pack_lmax = None /\ alm_packed = None
    /\ lm_baseline \in ((-MaxLmCoord)..MaxLmCoord) \X ((-MaxLmCoord)..MaxLmCoord)
    /\ lm_wavelength \in 1..MaxLmWavelength
    /\ lm_width \in 0..MaxLmWidth
    /\ lm_ret = None

LmNext == max_lm_call

SpecLm == LmInit /\ [][LmNext]_vars

\* ================================================================ claims

\* C1: after calculate_baselines the redundancy counts of the unique baselines
\* sum to nfeed*(nfeed-1)/2, the number of unordered feed pairs, for every
\* feed geometry.
C1_RedundancySum ==
    _redundancy # None => SumSeq(redundancy) = (nfeed * (nfeed - 1)) \div 2

\* Three feeds of which two pairs share one baseline.
C1_Witness ==
    /\ _redundancy # None
    /\ nfeed = 3
    /\ Len(redundancy) = 2
    /\ SumSeq(redundancy) = 3

\* The call passed both range checks: the bandlimits have been computed.
Validated == pc # "idle" /\ lmax # <<>>

\* C2: for every requested subset, the lside chosen with global_lmax=True is
\* not smaller than the lside global_lmax=False chooses for the same subset,
\* which is the largest doubled bandlimit of the subset.
C2_GlobalNotSmaller ==
    (Validated /\ global_lmax) => lside >= ArrayMax(lmax)

\* Some requested index lies outside [0, nbase) or [0, nfreq).
HasInvalidIndex ==
    \/ \E k \in 1..Len(bl_indices) :
          bl_indices[k] < 0 \/ bl_indices[k] >= Len(baselines)
    \/ \E k \in 1..Len(f_indices) :
          f_indices[k] < 0 \/ f_indices[k] >= nfreq

\* C3: a request with any out-of-range baseline or frequency index raises
\* before the buffer is allocated and before any kernel runs: there is no
\* output and the grid cache is as it was on entry.
C3_InvalidIndexRaises ==
    (pc # "idle" /\ HasInvalidIndex) =>
        /\ pc = "raised"
        /\ tarray = None
        /\ klog = <<>>
        /\ lmax = <<>>
        /\ _nside = nside0

\* A request whose first index is valid and whose second is nbase.
C3_Witness ==
    /\ pc = "raised"
    /\ Len(bl_indices) = 2
    /\ bl_indices[1] = 0
    /\ bl_indices[2] = Len(baselines)
    /\ Len(baselines) >= 1
    /\ \A k \in 1..Len(f_indices) : f_indices[k] >= 0 /\ f_indices[k] < nfreq
    /\ tarray = None

\* C4: within one call the bandlimit passed to the kernel never decreases
\* from one invocation to the next, and neither does the grid resolution
\* the invocation asks for.
C4_AscendingBandlimit ==
    \A k \in 1..(Len(klog) - 1) :
        /\ klog[k].lmax <= klog[k + 1].lmax
        /\ klog[k].nside <= klog[k + 1].nside

\* The second requested pair has the smaller bandlimit and is processed
\* first; the resolution grows between the two invocations.
C4_Witness ==
    /\ Len(klog) = 2
    /\ klog[1].ind = 1
    /\ klog[2].ind = 0
    /\ klog[1].lmax < klog[2].lmax
    /\ klog[1].nside < klog[2].nside

\* The slots of the 3x3 tensor of entry k that hold a kernel result.
WrittenSlots(k) ==
    {s \in (1..3) \X (1..3) : tarray[1][k][s[1]][s[2]].written}

\* C9 as stated: after a polarised call returns, each entry has exactly 3 of
\* its 9 slots written and the other 6 still zero.
C9_ThreeSlotsWritten ==
    (polarised /\ pc = "returned") =>
        \A k \in 1..Len(bl_indices) : Cardinality(WrittenSlots(k)) = 3

\* C9 as amended: after a polarised call returns, all 9 slots of each entry
\* are written: slot (pi, pj) holds coefficient array pj (of the three the
\* polarised transform returns) of cross product pi (xx, xy, yy) of the
\* entry's own baseline and frequency. No yx product is among them.
C9_AllSlotsWritten ==
    (polarised /\ pc = "returned") =>
        \A k \in 1..Len(bl_indices) : \A pi, pj \in 1..3 :
            LET slot == tarray[1][k][pi][pj]
            IN  /\ slot.written
                /\ slot.prod = Products[pi]
                /\ slot.comp = Components[pj]
                /\ slot.bl = bl_indices[k]
                /\ slot.f = f_indices[k]

\* A polarised call over two pairs has returned.
C9_Witness ==
    /\ polarised
    /\ pc = "returned"
    /\ Len(bl_indices) = 2
    /\ tarray[1][2][2][1].written
    /\ tarray[1][2][2][1].prod = "xy"

\* C10: a kernel invocation rebuilds the grid caches only when the resolution
\* it needs differs from the cached one, and within one call no resolution
\* is built twice, whatever resolution was cached on entry.
C10_RebuildOncePerLevel ==
    /\ \A k \in 1..Len(klog) :
          klog[k].init => klog[k].cached # klog[k].nside
    /\ \A j, k \in 1..Len(klog) :
          (j < k /\ klog[j].init /\ klog[k].init) =>
              klog[j].nside # klog[k].nside

\* An earlier call left another resolution cached; of two pairs of the same
\* level the first rebuilds the grid and the second reuses it.
C10_Witness ==
    /\ Len(klog) = 2
    /\ nside0 # InitNside
    /\ klog[1].nside = klog[2].nside
    /\ klog[1].init
    /\ ~klog[2].init

\* C5: map_half_plane sends a vector v and its negation -v to the same
\* representative (rows 1 and 2 of the folded array <<v, -v>> are equal).
C5_NegationSameRepresentative ==
    Len(foldHist) >= 1 => foldHist[1][1] = foldHist[1][2]

\* C6: map_half_plane is idempotent (the second fold returns the first fold's
\* result unchanged).
C6_FoldIdempotent ==
    Len(foldHist) >= 2 => foldHist[2] = foldHist[1]

\* C7: the unique baselines stored by calculate_baselines never hold both a
\* non-zero vector and its negation.
C7_NoOppositeBaselines ==
    _baselines # None =>
        \A a, b \in 1..Len(baselines) :
            baselines[a] # <<0, 0>> => baselines[b] # Neg(baselines[a])

\* A single cylinder whose baselines have been calculated.
SingleCylinderDone == num_cylinders = 1 /\ _redundancy # None

\* The k-th baseline is the one of separation k feed spacings, and N - k feed
\* pairs share it.
RegularBaselines ==
    /\ Len(baselines) = num_feeds - 1
    /\ Len(redundancy) = num_feeds - 1
    /\ \A k \in 1..(num_feeds - 1) :
          /\ redundancy[k] = num_feeds - k
          /\ baselines[k][1] = 0
          /\ Abs(baselines[k][2]) = Fl(k * feed_spacing)

\* Every feed position k * feed_spacing is computed without rounding.
ExactPositions ==
    \A k \in 0..(num_feeds - 1) : Fl(k * feed_spacing) = k * feed_spacing

\* C8 as stated: a single cylinder of N feeds at any regular positive spacing
\* has N-1 unique baselines with redundancies N-1, ..., 1 in order of
\* increasing separation.
C8_AnySpacing == SingleCylinderDone => RegularBaselines

\* C8 as amended: the same, for spacings whose multiples k * feed_spacing
\* (k < N) are exactly representable, such as 1.0 or 0.5.
C8_ExactSpacing == (SingleCylinderDone /\ ExactPositions) => RegularBaselines

\* Six feeds at unit spacing: redundancies 5, 4, 3, 2, 1.
C8_Witness ==
    /\ SingleCylinderDone
    /\ ExactPositions
    /\ num_feeds = 6
    /\ feed_spacing = One
    /\ redundancy = <<5, 4, 3, 2, 1>>

\* What a request must give, computed from the arguments of the call and the
\* configuration of the telescope alone: the doubled bandlimits, the side,
\* and the block of coordinate k.
RequestLmax ==
    Array([k \in 1..Len(bl_indices) |->
        2 * max_l(NpIndex(baselines, bl_indices[k]),
                  NpIndex(wavelengths, f_indices[k]), u_width)])

RequestLside ==
    IF global_lmax THEN self_lmax(baselines) ELSE ArrayMax(RequestLmax)

RequestBlock(k, prod, comp) ==
    LET l  == RequestLmax[k]
        ns == nside_for_lmax(l)
    IN  Block(bl_indices[k], f_indices[k], l, RequestLside, ns, ns,
              cylinder_beam(ns, f_indices[k]), prod, comp)

\* C11: the outcome of an unpolarised transfer_matrices call is a function of
\* its arguments and the telescope's configuration: whether it returns, and
\* every block of the array it returns, are the same whatever grid cache and
\* beam cache earlier calls left behind.
C11_ResultIgnoresCaches ==
    (~polarised /\ pc \in {"returned", "raised"} /\ ~HasInvalidIndex) =>
        /\ pc = "raised" <=>
               \E k \in 1..Len(bl_indices) : RequestLmax[k] > RequestLside
        /\ pc = "returned" =>
               tarray = Some([k \in 1..Len(bl_indices) |->
                                 RequestBlock(k, "", "")])

\* An unpolarised call has returned that found the grid of an earlier call,
\* of another resolution than __init__ builds and than its first pair needs.
C11_Witness ==
    /\ ~polarised
    /\ pc = "returned"
    /\ klog # <<>>
    /\ nside0 # InitNside
    /\ klog[1].cached = nside0
    /\ klog[1].cached # klog[1].nside

\* C12: packing the triangular (non-negative order) array unpack_alm made
\* of alm gives alm back, for every bandlimit from 0 up, with lmax passed to
\* pack_alm or left for it to infer.
C12_PackUnpack ==
    (alm_packed # None /\ ~fullm) =>
        alm_packed[1].ok /\ alm_packed[1].alm = alm

\* The round trip at bandlimit 0 with lmax = 0 passed to pack_alm.
C12_Witness ==
    /\ alm_packed # None
    /\ ~fullm
    /\ alm_lmax = 0
    /\ pack_lmax = Some(0)
    /\ alm_packed[1].ok

\* C13: packing the full array unpack_alm made of alm with fullm=True
\* (negative orders in the second half) gives alm back exactly.
C13_PackFull ==
    (alm_packed # None /\ fullm) =>
        alm_packed[1].ok /\ alm_packed[1].alm = alm

\* The round trip through a full array with negative-order columns.
C13_Witness ==
    /\ alm_packed # None
    /\ fullm
    /\ alm_lmax = MaxLmax
    /\ Cols(almarray[1]) = 2 * MaxLmax + 1
    /\ alm_packed[1].ok

\* m is ceil(pi * num / den), for num >= 0 and den > 0.
IsCeilPiTimes(m, num, den) ==
    /\ m * PiDen * den >= PiNum * num
    /\ (m - 1) * PiDen * den < PiNum * num

\* C14 as stated: mmax = ceil(2 pi (|u| + width/2) / wavelength), half the
\* width added to the east-west separation.
C14_HalfWidth ==
    lm_ret # None =>
        IsCeilPiTimes(lm_ret[1].mmax[1], 2 * Abs(lm_baseline[1]) + lm_width,
                      lm_wavelength)

\* C14 amended: mmax = ceil(2 pi (|u| + width) / wavelength), the whole
\* width added to the east-west separation.
C14_FullWidth ==
    lm_ret # None =>
        IsCeilPiTimes(lm_ret[1].mmax[1],
                      2 * (Abs(lm_baseline[1]) + lm_width), lm_wavelength)

\* max_lm has returned for a westward baseline and a positive width.
C14_Witness ==
    /\ lm_ret # None
    /\ lm_baseline[1] < 0
    /\ lm_width > 0
    /\ lm_ret[1].mmax[1] > 0

\* C15: in every call that passed validation, with global_lmax set or not,
\* the doubled bandlimit of every requested pair is at most lside, so every
\* block the kernel returns has the side of the buffer and its insertion
\* does not raise.
C15_BlockFitsBuffer ==
    Validated =>
        /\ \A k \in 1..Len(lmax) : lmax[k] <= lside
        /\ \A k \in 1..Len(lmax) : block_side(lmax[k], lside) = lside
        /\ pc # "raised"

\* C16 as stated: every stored baseline has a non-negative first coordinate
\* and is its own half-plane fold.
C16_StoredCanonical ==
    _baselines # None =>
        \A k \in 1..Len(baselines) :
            /\ baselines[k][1] >= 0
            /\ map_half_plane(<<baselines[k]>>) = <<baselines[k]>>

\* C16 amended: every stored baseline is the unfolded difference
\* feedpositions[i] - feedpositions[j] of its stored feed pair (i, j), i < j;
\* the fold is used for grouping only.
C16_StoredDifference ==
    _baselines # None =>
        /\ Len(baselines) = Len(feedpairs)
        /\ \A k \in 1..Len(baselines) :
              /\ feedpairs[k][1] < feedpairs[k][2]
              /\ baselines[k] = VecSub(feedpositions[feedpairs[k][1] + 1],
                                       feedpositions[feedpairs[k][2] + 1])

\* A two-cylinder array whose stored baselines include one between the
\* cylinders, with a negative first coordinate.
C16_Witness ==
    /\ num_cylinders = 2
    /\ _baselines # None
    /\ \E k \in 1..Len(baselines) :
          /\ baselines[k][1] < 0
          /\ map_half_plane(<<baselines[k]>>) # <<baselines[k]>>

\* The coordinates (0-based) the loop has processed so far.
Processed == {klog[k].ind : k \in 1..Len(klog)}

\* The region of coordinate k holds exactly the result of its own pair.
OwnResult(k) ==
    IF polarised
    THEN tarray[1][k] = [pi \in 1..3 |-> [pj \in 1..3 |->
                            RequestBlock(k, Products[pi], Components[pj])]]
    ELSE tarray[1][k] = RequestBlock(k, "", "")

\* The region of coordinate k is as np.zeros left it.
Untouched(k) ==
    IF polarised
    THEN \A pi, pj \in 1..3 : tarray[1][k][pi][pj] = Zeros(lside)
    ELSE tarray[1][k] = Zeros(lside)

\* C17: while a call that will succeed runs, no coordinate is processed
\* twice, a processed coordinate's region holds the result of its own pair
\* and every other region is untouched; when the call returns every
\* coordinate has been written, so the buffer is fixed by the request and
\* not by the processing order.
C17_DisjointWrites ==
    (Validated /\ pc \in {"loop", "returned"}) =>
        /\ \A i, j \in 1..Len(klog) : i # j => klog[i].ind # klog[j].ind
        /\ \A k \in 1..Len(bl_indices) :
              IF (k - 1) \in Processed THEN OwnResult(k) ELSE Untouched(k)
        /\ pc = "returned" => Processed = 0..(Len(bl_indices) - 1)

\* A call has returned whose two coordinates name the same pair and were
\* processed last coordinate first.
C17_Witness ==
    /\ pc = "returned"
    /\ Len(bl_indices) = 2
    /\ bl_indices[1] = bl_indices[2]
    /\ f_indices[1] = f_indices[2]
    /\ order = <<1, 0>>
    /\ OwnResult(1) /\ OwnResult(2)

====
